---- MODULE Spec2Model ----
(***************************************************************************)
(* Model of the git-summary pipeline of dcr-mcp:                           *)
(*   pkg/tools/gitsummary/git_summary.go  (Handler, GenerateSummary)       *)
(*   pkg/worksummary (GitAnalyzer, OpenAIClient)                           *)
(*                                                                         *)
(* Text values (author names, commit messages, the corpus, the streamed    *)
(* narrative) are sequences of strings, each element one chunk of          *)
(* characters; author names and filters are spelled one character per      *)
(* element so that strings.Contains and strings.ToLower are computed.      *)
(* Instants are naturals; 0 is Go's zero time.Time, a day is DayLen ticks  *)
(* and the wall clock never reads an instant of day 0.                     *)
(***************************************************************************)
EXTENDS Integers, Sequences, FiniteSets, TLC

\* ------------------------------------------------------------------ bounds
MaxNow == 4
MaxCommits == 2
MaxFrags == 2
DayLen == 2

\* ------------------------------------------------------- string functions
UpperChars == <<"A","B","C","D","E","F","G","H","I","J","K","L","M",
                "N","O","P","Q","R","S","T","U","V","W","X","Y","Z">>
LowerChars == <<"a","b","c","d","e","f","g","h","i","j","k","l","m",
                "n","o","p","q","r","s","t","u","v","w","x","y","z">>

ToLowerChar(c) ==
    IF \E i \in 1..Len(UpperChars) : UpperChars[i] = c
    THEN LowerChars[CHOOSE i \in 1..Len(UpperChars) : UpperChars[i] = c]
    ELSE c

\* strings.ToLower
ToLower(s) == [i \in 1..Len(s) |-> ToLowerChar(s[i])]

\* strings.Contains(s, substr): true for the empty substr
Contains(s, substr) ==
    \E i \in 0..(Len(s) - Len(substr)) :
        SubSeq(s, i + 1, i + Len(substr)) = substr

\* ------------------------------------------------------------ error values
\* A Go error: msg is the rendered message, outermost prefix first; is is the
\* set of causes errors.Is finds by unwrapping. fmt.Errorf with %w keeps the
\* chain, with %v it flattens the cause to text.
NilErr == [msg |-> <<>>, is |-> {}]
NewErr(m) == [msg |-> <<m>>, is |-> {m}]
ErrorfW(prefix, e) == [msg |-> <<prefix>> \o e.msg, is |-> e.is]
ErrorfV(prefix, e) == [msg |-> <<prefix>> \o e.msg, is |-> {}]
IsNil(e) == e = NilErr

\* validator "required": a string (or text) fails when it is the zero value
Required(s) == s # ""
RequiredText(t) == t # <<>>
RequiredErr == NewErr("failed on the 'required' tag")

\* ------------------------------------------------------------------ inputs
JaneDoe == <<"J","a","n","e"," ","D","o","e">>
Dependabot == <<"d","e","p","e","n","d","a","b","o","t","[","b","o","t","]">>
Kodiak == <<"k","o","d","i","a","k","h","q","[","b","o","t","]">>
AuthorNames == {JaneDoe, Dependabot, Kodiak}

\* author filters a caller may pass; the empty text is "no filter"
AuthorFilters ==
    {<<>>, <<"j","a","n","e">>,
     <<"B","O","T">>}

Urls == {"", "https://example.org/repo.git"}
Branches == {"", "main"}
EnvKeys == {"", "sk-env"}
\* values of the api_key tool argument
ArgKeys == {"sk-arg"}
\* date strings: unparsable, parsing to the zero instant, absolute days
DateStrings == {"", "garbage", "0001-01-01", "day1", "day2"}

\* message of the k-th commit of a history
Letters == <<"a", "b", "c", "d">>
Messages(k) == {<<Letters[k]>>}

\* a commit as the walk reads it: Author.Name, Message, Committer.When
Commit(a, m, w) == [author |-> a, msg |-> m, when |-> w]

\* linear histories of the fetched branch, oldest commit first: commit k
\* and its successors, committed at increasing instants from..t, where t is
\* the instant of the fetch
RECURSIVE Histories(_, _, _)
Histories(k, from, t) ==
    {<<>>} \cup
    (IF k > MaxCommits THEN {}
     ELSE UNION {{<<Commit(a, m, w)>> \o h :
                        h \in Histories(k + 1, w + 1, t)} :
                 <<a, m, w>> \in AuthorNames \X Messages(k) \X (from..t)})

\* an optional tool argument: absent from the map, or present with a value
Absent(zero) == [present |-> FALSE, v |-> zero]
Opt(S, zero) == {Absent(zero)} \cup {[present |-> TRUE, v |-> x] : x \in S}

\* request.Params.Arguments
HandlerArgs ==
    [repo_url : Opt(Urls, ""), branch : Opt(Branches, ""),
     start_date : Opt(DateStrings, ""), end_date : Opt(DateStrings, ""),
     author : Opt(AuthorFilters, <<>>), api_key : Opt(ArgKeys, "")]

\* GitSummaryRequest (git_summary.go:27-34)
GitSummaryRequest(u, b, s, e, a, k) ==
    [RepoURL |-> u, Branch |-> b, StartDate |-> s, EndDate |-> e,
     Author |-> a, APIKey |-> k]
ZeroRequest == GitSummaryRequest("", "", "", "", <<>>, "")

\* requests a direct caller of GenerateSummary may pass
DirectRequests ==
    {GitSummaryRequest(u, b, s, e, a, "sk-env") :
        <<u, b, s, e, a>> \in
            Urls \X Branches \X DateStrings \X DateStrings \X AuthorFilters}

\* ------------------------------------------------- dates (GitAnalyzer)
\* date.Date: an instant and the period (precision) it was given with
Date(t, p) == [time |-> t, period |-> p]
ZeroDate == Date(0, "zero")
\* time.Time.IsZero
IsZero(t) == t = 0
\* an instant floored to the start of its day
FloorDay(t) == t - (t % DayLen)

\* dps.Parse(cfg, str) of go-dateparser, as far as the analyzer relies on
\* it: a date and an error. cfg is [CurrentTime, DefaultTimezone].
Parse(cfg, str) ==
    CASE str = "day1" -> <<Date(1 * DayLen, "day"), NilErr>>
      [] str = "day2" -> <<Date(2 * DayLen, "day"), NilErr>>
      [] str = "0001-01-01" -> <<Date(0, "day"), NilErr>>
      [] OTHER -> <<ZeroDate, NewErr("failed to parse")>>

parseStartDate(cfg, dateStr) ==
    IF ~Required(dateStr)
    THEN <<ZeroDate, ErrorfW("start date cannot be empty", RequiredErr)>>
    ELSE LET r == Parse(cfg, dateStr) IN
         IF ~IsNil(r[2]) \/ IsZero(r[1].time)
         THEN <<r[1], NewErr("could not parse date")>>
         ELSE <<r[1], NilErr>>

\* a default end floored to the start of the clock's day
parseEndDateFloored(cfg, endDateStr) ==
    IF endDateStr = ""
    THEN <<Date(FloorDay(cfg.CurrentTime), "day"), NilErr>>
    ELSE LET r == Parse(cfg, endDateStr) IN
         IF ~IsNil(r[2]) \/ IsZero(r[1].time)
         THEN <<r[1], NewErr("could not parse date")>>
         ELSE <<r[1], NilErr>>

\* an end date accepted without the zero-instant test
parseEndDateNoZeroTest(cfg, endDateStr) ==
    IF endDateStr = ""
    THEN <<Date(cfg.CurrentTime, "day"), NilErr>>
    ELSE LET r == Parse(cfg, endDateStr) IN
         IF ~IsNil(r[2])
         THEN <<r[1], NewErr("could not parse date")>>
         ELSE <<r[1], NilErr>>

parseEndDate(cfg, endDateStr) ==
    IF endDateStr = ""
    THEN <<Date(cfg.CurrentTime, "day"), NilErr>>
    ELSE LET r == Parse(cfg, endDateStr) IN
         IF ~IsNil(r[2]) \/ IsZero(r[1].time)
         THEN <<r[1], NewErr("could not parse date")>>
         ELSE <<r[1], NilErr>>

\* ParseAnalysisDates: <<start, end, err>>
ParseAnalysisDates(cfg, startDate, endDate) ==
    IF ~Required(startDate)
    THEN <<ZeroDate, ZeroDate,
           ErrorfW("start date cannot be empty", RequiredErr)>>
    ELSE LET s == parseStartDate(cfg, startDate) IN
         IF ~IsNil(s[2])
         THEN <<s[1], ZeroDate, ErrorfW("invalid start date", s[2])>>
         ELSE LET e == parseEndDate(cfg, endDate) IN
              IF ~IsNil(e[2])
              THEN <<s[1], e[1], ErrorfW("invalid end date", e[2])>>
              ELSE <<s[1], e[1], NilErr>>

\* ------------------------------------------- commit filter (GitAnalyzer)
\* a bot test that knows one marker only
IsBotOneMarker(name) == Contains(name, Dependabot)

\* the bot-exclusion test of the ForEach callback
IsBot(name) ==
    \/ Contains(name, Dependabot)
    \/ Contains(name, Kodiak)

\* an author test that compares case-sensitively
AuthorMismatchCaseSensitive(name, author) ==
    /\ author # <<>>
    /\ ~Contains(name, author)

\* the author test of the ForEach callback: TRUE when the commit is skipped
AuthorMismatch(name, author) ==
    /\ author # <<>>
    /\ ~Contains(ToLower(name), ToLower(author))

\* Repo.Log with Since/Until and LogOrderCommitterTime: the commits whose
\* committer time is not before Since and not after Until, newest first
RECURSIVE Reverse(_)
Reverse(s) == IF s = <<>> THEN <<>> ELSE Reverse(Tail(s)) \o <<Head(s)>>
\* a window that leaves out a commit stamped exactly at Until
InRangeExclusive(c, since, until) == ~(c.when < since) /\ c.when < until
InRange(c, since, until) == ~(c.when < since) /\ ~(c.when > until)
Log(commits, since, until) ==
    Reverse(SelectSeq(commits, LAMBDA c : InRange(c, since, until)))

\* a validation that also wants End not before Start
ValidCommitRangeParamsOrdered(p) ==
    /\ p.Repo.ok
    /\ ~IsZero(p.Start)
    /\ ~IsZero(p.End)
    /\ RequiredText(p.Author)
    /\ p.Start <= p.End

\* validate.Struct(CommitRangeParams): every field carries "required"
ValidCommitRangeParams(p) ==
    /\ p.Repo.ok
    /\ ~IsZero(p.Start)
    /\ ~IsZero(p.End)
    /\ RequiredText(p.Author)

\* ------------------------------------------------------------------- state
VARIABLES
    now,        \* wall-clock instant (time.Now)
    clock,      \* GitAnalyzer.dateConfig.CurrentTime
    env,        \* os.Getenv("OPENAI_API_KEY")
    pc,         \* position of the invocation
    entry,      \* which exported method the caller invoked
    args,       \* request.Params.Arguments of a Handler call
    req,        \* the GitSummaryRequest in use
    ctxErr,     \* ctx.Err(): "none" until the context is done
    repo,       \* *git.Repository returned by CloneAndCheckout
    startDate,  \* resolved start (date.Date)
    endDate,    \* resolved end (date.Date)
    iter,       \* commits the walk has still to yield
    buf,        \* strings.Builder of ListCommitsInRange
    kept,       \* commits whose message was written to buf, in order
    commitMsgs, \* corpus returned by ListCommitsInRange
    sb,         \* strings.Builder of SummarizeCommitMessages
    result,     \* what the caller received
    calls,      \* pipeline steps entered, in order
    net,        \* external requests issued, in order
    failed,     \* pipeline steps that returned an error, in order
    summary,    \* what SummarizeCommitMessages itself returned
    delivered,  \* fragments stream.Recv() has returned, in order
    recvs,      \* calls of stream.Recv() made
    recvOut,    \* outcome of the latest stream.Recv()
    cancelAt,   \* where the invocation stood when the context was cancelled
    runs,       \* what the direct calls of ListCommitsInRange returned
    parked,     \* locals of a concurrent invocation that is not running
    lit         \* one invocation of the literature tool's handler

vars == <<now, clock, env, pc, entry, args, req, ctxErr, repo, startDate,
          endDate, iter, buf, kept, commitMsgs, sb, result, calls, net,
          failed, summary, delivered, recvs, recvOut, cancelAt, runs,
          parked, lit>>

gitVars == <<now, clock, env, pc, entry, args, req, ctxErr, repo, startDate,
             endDate, iter, buf, kept, commitMsgs, sb, result, calls, net,
             failed, summary, delivered, recvs, recvOut, cancelAt, runs,
             parked>>

streamVars == <<summary, delivered, recvs, recvOut>>

NoArgs ==
    [repo_url |-> Absent(""), branch |-> Absent(""),
     start_date |-> Absent(""), end_date |-> Absent(""),
     author |-> Absent(<<>>), api_key |-> Absent("")]
NoRepo == [ok |-> FALSE, commits |-> <<>>]
NoResult == [status |-> "pending", text |-> <<>>, err |-> NilErr]
Sentinel == <<"No commits found in the specified date range.">>
NoSummary == [returned |-> FALSE, text |-> <<>>, err |-> NilErr]
NotCancelled == [pc |-> "none", n |-> 0]

\* the literature handler before a request: no provider queried
LitIdle ==
    [pc |-> "idle",
     args |-> [id |-> Absent(<<>>), id_type |-> Absent(""),
               provider |-> Absent("")],
     params |-> [ID |-> <<>>, IDType |-> "", Provider |-> ""],
     net |-> <<>>,
     epmcErr |-> NilErr, pubmedErr |-> NilErr,
     result |-> [status |-> "pending", article |-> <<>>, err |-> NilErr]]

\* the local variables of an invocation that has not started
IdleLocals ==
    [pc |-> "idle", entry |-> "none", args |-> NoArgs, req |-> ZeroRequest,
     ctxErr |-> "none", repo |-> NoRepo, startDate |-> ZeroDate,
     endDate |-> ZeroDate, iter |-> <<>>, buf |-> <<>>, kept |-> <<>>,
     commitMsgs |-> <<>>, sb |-> <<>>, result |-> NoResult, calls |-> <<>>,
     net |-> <<>>, failed |-> <<>>, summary |-> NoSummary,
     delivered |-> <<>>, recvs |-> 0, recvOut |-> "none",
     cancelAt |-> NotCancelled, runs |-> <<>>]

\* NewGitSummaryTool / NewGitAnalyzer: the analyzer's reference clock is
\* time.Now() at construction
Init ==
    /\ now \in DayLen..MaxNow
    /\ clock = now
    /\ env \in EnvKeys
    /\ pc = "idle"
    /\ entry = "none"
    /\ args = NoArgs
    /\ req = ZeroRequest
    /\ ctxErr = "none"
    /\ repo = NoRepo
    /\ startDate = ZeroDate
    /\ endDate = ZeroDate
    /\ iter = <<>>
    /\ buf = <<>>
    /\ kept = <<>>
    /\ commitMsgs = <<>>
    /\ sb = <<>>
    /\ result = NoResult
    /\ calls = <<>>
    /\ net = <<>>
    /\ failed = <<>>
    /\ summary = NoSummary
    /\ delivered = <<>>
    /\ recvs = 0
    /\ recvOut = "none"
    /\ cancelAt = NotCancelled
    /\ runs = <<>>
    /\ parked = IdleLocals
    /\ lit = LitIdle

\* ------------------------------------------------------------ environment
\* time passes between construction of the tool and a request
Tick ==
    /\ pc = "idle"
    /\ now < MaxNow
    /\ now' = now + 1
    /\ UNCHANGED <<clock, env, pc, entry, args, req, ctxErr, repo, startDate,
                   endDate, iter, buf, kept, commitMsgs, sb, result, calls,
                   net, failed>>
    /\ UNCHANGED streamVars
    /\ UNCHANGED cancelAt
    /\ UNCHANGED runs
    /\ UNCHANGED parked
    /\ UNCHANGED lit

\* the caller cancels the context, or its deadline passes
Cancel ==
    /\ pc \notin {"idle", "done"}
    /\ ctxErr = "none"
    /\ \E e \in {"context canceled", "context deadline exceeded"} :
           ctxErr' = e
    /\ cancelAt' = [pc |-> pc, n |-> Len(delivered)]
    /\ UNCHANGED streamVars
    /\ UNCHANGED <<now, clock, env, pc, entry, args, req, repo, startDate,
                   endDate, iter, buf, kept, commitMsgs, sb, result, calls,
                   net, failed>>
    /\ UNCHANGED runs
    /\ UNCHANGED parked
    /\ UNCHANGED lit

\* ---------------------------------------------------- returning a result
\* what the caller of the entry point receives when GenerateSummary returns
\* (text, err): Handler (git_summary.go:139-144) flattens the error with %v
\* and returns a nil result on failure
Returned(ent, text, err) ==
    IF ent = "Handler"
    THEN IF IsNil(err)
         THEN [status |-> "ok", text |-> text, err |-> NilErr]
         ELSE [status |-> "err", text |-> <<>>,
               err |-> ErrorfV("Error generating summary", err)]
    ELSE IF IsNil(err)
         THEN [status |-> "ok", text |-> text, err |-> NilErr]
         ELSE [status |-> "err", text |-> text, err |-> err]

\* a failing step whose error is dropped instead of returned
FailSwallowed(step, err) ==
    /\ result' = Returned(entry, <<>>, NilErr)
    /\ failed' = Append(failed, step)
    /\ pc' = "done"

\* a step of GenerateSummary failed: return "", the wrapped error
Fail(step, err) ==
    /\ result' = Returned(entry, <<>>, err)
    /\ failed' = Append(failed, step)
    /\ pc' = "done"

\* ------------------------------------------------------------ entry points
\* a pipeline that resolves the dates before it acquires the repository
AfterDatesFirst(step) ==
    CASE step = "start" -> "dates"
      [] step = "ParseAnalysisDates" -> "clone"
      [] step = "CloneAndCheckout" -> "collect"
      [] step = "ListCommitsInRange" -> "summarize"

\* the statement order of GenerateSummary (git_summary.go:153-193): the
\* position reached when a step has succeeded
After(step) ==
    CASE step = "start" -> "clone"
      [] step = "CloneAndCheckout" -> "dates"
      [] step = "ParseAnalysisDates" -> "collect"
      [] step = "ListCommitsInRange" -> "summarize"

\* a pipeline that short-circuits when no commit survived, whatever the
\* corpus
NoCommitsByCount(msgs) == kept = <<>>

\* a pipeline that never short-circuits on the empty corpus
NoCommitsNever(msgs) == FALSE

\* the test `commitMsgs == ""` of GenerateSummary (git_summary.go:183)
NoCommits(msgs) == msgs = <<>>

\* validate.Struct(GitSummaryRequest): every field but EndDate is required
ValidRequest(r) ==
    /\ Required(r.RepoURL)
    /\ Required(r.Branch)
    /\ Required(r.StartDate)
    /\ RequiredText(r.Author)
    /\ Required(r.APIKey)

\* the unchecked type assertions args["k"].(string) of Handler panic on an
\* argument that is not in the map
AssertionsPanic(a) ==
    \/ ~a.repo_url.present
    \/ ~a.branch.present
    \/ ~a.start_date.present
    \/ ~a.author.present

\* the request Handler builds from the arguments and the environment:
\* APIKey is os.Getenv("OPENAI_API_KEY") (git_summary.go:124) and the
\* api_key argument is not read
BuildRequest(a, key) ==
    GitSummaryRequest(a.repo_url.v, a.branch.v, a.start_date.v,
        IF a.end_date.present /\ a.end_date.v # "" THEN a.end_date.v ELSE "",
        a.author.v, key)

\* Handler, up to and including validate.Struct (git_summary.go:116-133),
\* on the arguments a
HandlerWith(a) ==
    /\ entry' = "Handler"
    /\ args' = a
    /\ IF AssertionsPanic(a)
       THEN /\ result' = [status |-> "panic", text |-> <<>>,
                           err |-> NilErr]
            /\ pc' = "done"
            /\ req' = req
       ELSE IF ~ValidRequest(BuildRequest(a, env))
       THEN /\ result' = [status |-> "err", text |-> <<>>,
                   err |-> ErrorfV("Validation error", RequiredErr)]
            /\ pc' = "done"
            /\ req' = BuildRequest(a, env)
       ELSE /\ result' = result
            /\ pc' = "client"
            /\ req' = BuildRequest(a, env)
    /\ UNCHANGED <<now, clock, env, ctxErr, repo, startDate, endDate, iter,
                   buf, kept, commitMsgs, sb, calls, net, failed>>
    /\ UNCHANGED streamVars
    /\ UNCHANGED cancelAt
    /\ UNCHANGED runs
    /\ UNCHANGED parked
    /\ UNCHANGED lit

\* a request arrives at the registered handler
HandlerCall ==
    /\ pc = "idle"
    /\ \E a \in HandlerArgs : HandlerWith(a)

\* ---------------------------------------------- concurrent invocations
\* the local variables of the running invocation of Handler,
\* GenerateSummary and the worksummary methods it calls
Locals ==
    [pc |-> pc, entry |-> entry, args |-> args, req |-> req,
     ctxErr |-> ctxErr, repo |-> repo, startDate |-> startDate,
     endDate |-> endDate, iter |-> iter, buf |-> buf, kept |-> kept,
     commitMsgs |-> commitMsgs, sb |-> sb, result |-> result,
     calls |-> calls, net |-> net, failed |-> failed, summary |-> summary,
     delivered |-> delivered, recvs |-> recvs, recvOut |-> recvOut,
     cancelAt |-> cancelAt, runs |-> runs]

\* a corpus builder that belongs to the shared analyzer, not to the call
ResumedSharedBuilder(l) == [l EXCEPT !.buf = buf]

\* what a goroutine finds when it is scheduled again: its own locals, as
\* it left them; the calls share the tool and its analyzer only
Resumed(l) == l

\* the scheduler runs the other of two invocations of the same tool
Switch ==
    /\ parked' = Locals
    /\ pc' = Resumed(parked).pc
    /\ entry' = Resumed(parked).entry
    /\ args' = Resumed(parked).args
    /\ req' = Resumed(parked).req
    /\ ctxErr' = Resumed(parked).ctxErr
    /\ repo' = Resumed(parked).repo
    /\ startDate' = Resumed(parked).startDate
    /\ endDate' = Resumed(parked).endDate
    /\ iter' = Resumed(parked).iter
    /\ buf' = Resumed(parked).buf
    /\ kept' = Resumed(parked).kept
    /\ commitMsgs' = Resumed(parked).commitMsgs
    /\ sb' = Resumed(parked).sb
    /\ result' = Resumed(parked).result
    /\ calls' = Resumed(parked).calls
    /\ net' = Resumed(parked).net
    /\ failed' = Resumed(parked).failed
    /\ summary' = Resumed(parked).summary
    /\ delivered' = Resumed(parked).delivered
    /\ recvs' = Resumed(parked).recvs
    /\ recvOut' = Resumed(parked).recvOut
    /\ cancelAt' = Resumed(parked).cancelAt
    /\ runs' = Resumed(parked).runs
    /\ UNCHANGED <<now, clock, env>>
    /\ UNCHANGED lit

\* two requests served at the same time: same repository and window, two
\* author filters
ConcurrentArgs ==
    {[repo_url |-> [present |-> TRUE, v |-> "https://example.org/repo.git"],
      branch |-> [present |-> TRUE, v |-> "main"],
      start_date |-> [present |-> TRUE, v |-> "day1"],
      end_date |-> Absent(""),
      author |-> [present |-> TRUE, v |-> a],
      api_key |-> Absent("")] :
        a \in {<<"j","a","n","e">>, <<"D","O","E">>}}

HandlerCallConcurrent ==
    /\ pc = "idle"
    /\ \E a \in ConcurrentArgs : HandlerWith(a)

\* worksummary.NewOpenAIClient(params.APIKey) (git_summary.go:135-138)
NewOpenAIClient ==
    /\ pc = "client"
    /\ calls' = Append(calls, "NewOpenAIClient")
    /\ IF ~Required(req.APIKey)
       THEN /\ result' = [status |-> "err", text |-> <<>>,
                   err |-> ErrorfV("Error initializing OpenAI client",
                                   NewErr("API key is required"))]
            /\ failed' = Append(failed, "NewOpenAIClient")
            /\ pc' = "done"
       ELSE /\ pc' = After("start")
            /\ UNCHANGED <<result, failed>>
    /\ UNCHANGED <<now, clock, env, entry, args, req, ctxErr, repo,
                   startDate, endDate, iter, buf, kept, commitMsgs, sb, net>>
    /\ UNCHANGED streamVars
    /\ UNCHANGED cancelAt
    /\ UNCHANGED runs
    /\ UNCHANGED parked
    /\ UNCHANGED lit

\* a caller invokes the exported GenerateSummary with its own client
GenerateSummaryCall ==
    /\ pc = "idle"
    /\ \E r \in DirectRequests :
        /\ entry' = "GenerateSummary"
        /\ req' = r
        /\ pc' = After("start")
    /\ UNCHANGED <<now, clock, env, args, ctxErr, repo, startDate, endDate,
                   iter, buf, kept, commitMsgs, sb, result, calls, net,
                   failed>>
    /\ UNCHANGED streamVars
    /\ UNCHANGED cancelAt
    /\ UNCHANGED runs
    /\ UNCHANGED parked
    /\ UNCHANGED lit

\* ------------------------------------------------- GenerateSummary steps
\* a CloneAndCheckout that validates the URL only
CloneInputErrorUrlOnly(u, b) ==
    IF ~Required(u)
    THEN ErrorfW("repository URL cannot be empty", RequiredErr)
    ELSE NilErr

\* validate.Var on the URL, then on the branch (part_011:516-525): the
\* error CloneAndCheckout returns, with a nil repository, before it clones
CloneInputError(u, b) ==
    IF ~Required(u)
    THEN ErrorfW("repository URL cannot be empty", RequiredErr)
    ELSE IF ~Required(b)
    THEN ErrorfW("branch name cannot be empty", RequiredErr)
    ELSE NilErr

\* CloneAndCheckout up to the start of git.CloneContext
CloneStart ==
    /\ pc = "clone"
    /\ calls' = Append(calls, "CloneAndCheckout")
    /\ IF ~IsNil(CloneInputError(req.RepoURL, req.Branch))
       THEN /\ Fail("CloneAndCheckout", ErrorfW("failed to clone repository",
                   CloneInputError(req.RepoURL, req.Branch)))
            /\ net' = net
       ELSE /\ net' = Append(net, "fetch")
            /\ pc' = "cloning"
            /\ UNCHANGED <<result, failed>>
    /\ UNCHANGED <<now, clock, env, entry, args, req, ctxErr, repo,
                   startDate, endDate, iter, buf, kept, commitMsgs, sb>>
    /\ UNCHANGED streamVars
    /\ UNCHANGED cancelAt
    /\ UNCHANGED runs
    /\ UNCHANGED parked
    /\ UNCHANGED lit

\* git.CloneContext returns: aborted by the context, failed, or fetched
\* one of the histories the remote may hold
CloneFinishWith(fetched) ==
    /\ pc = "cloning"
    /\ IF ctxErr # "none"
       THEN /\ Fail("CloneAndCheckout", ErrorfW("failed to clone repository",
                   ErrorfW("error cloning repository", NewErr(ctxErr))))
            /\ repo' = repo
       ELSE \E out \in {<<"err", <<>>>>} \cup
                        {<<"ok", h>> : h \in fetched} :
            IF out[1] = "err"
            THEN /\ Fail("CloneAndCheckout",
                        ErrorfW("failed to clone repository",
                            ErrorfW("error cloning repository",
                                NewErr("transport error"))))
                 /\ repo' = repo
            ELSE /\ repo' = [ok |-> TRUE, commits |-> out[2]]
                 /\ pc' = After("CloneAndCheckout")
                 /\ UNCHANGED <<result, failed>>
    /\ UNCHANGED <<now, clock, env, entry, args, req, ctxErr, startDate,
                   endDate, iter, buf, kept, commitMsgs, sb, calls, net>>
    /\ UNCHANGED streamVars
    /\ UNCHANGED cancelAt
    /\ UNCHANGED runs
    /\ UNCHANGED parked
    /\ UNCHANGED lit

\* the remote holds commits that all carry a message
CloneFinish == CloneFinishWith(Histories(1, DayLen, now) \ {<<>>})

\* a history with the messages of the commits at positions S emptied
\* (git commit --allow-empty-message)
Emptied(h, S) ==
    [i \in 1..Len(h) |-> IF i \in S THEN [h[i] EXCEPT !.msg = <<>>]
                         ELSE h[i]]
EmptiedHistories(t) ==
    UNION {{Emptied(h, S) : S \in SUBSET (1..Len(h))} :
           h \in Histories(1, DayLen, t) \ {<<>>}}

\* the remote holds commits of which some carry the empty message
CloneFinishEmptyMessages == CloneFinishWith(EmptiedHistories(now))

\* g.analyzer.ParseAnalysisDates (git_summary.go:160-166)
ResolveDates ==
    /\ pc = "dates"
    /\ calls' = Append(calls, "ParseAnalysisDates")
    /\ LET r == ParseAnalysisDates([CurrentTime |-> clock],
                                   req.StartDate, req.EndDate) IN
       IF ~IsNil(r[3])
       THEN /\ Fail("ParseAnalysisDates",
                    ErrorfW("failed to parse dates", r[3]))
            /\ UNCHANGED <<startDate, endDate>>
       ELSE /\ startDate' = r[1]
            /\ endDate' = r[2]
            /\ pc' = After("ParseAnalysisDates")
            /\ UNCHANGED <<result, failed>>
    /\ UNCHANGED <<now, clock, env, entry, args, req, ctxErr, repo, iter,
                   buf, kept, commitMsgs, sb, net>>
    /\ UNCHANGED streamVars
    /\ UNCHANGED cancelAt
    /\ UNCHANGED runs
    /\ UNCHANGED parked
    /\ UNCHANGED lit

\* CommitRangeParams built by GenerateSummary (git_summary.go:169-174)
RangeParams ==
    [Repo |-> repo, Start |-> startDate.time, End |-> endDate.time,
     Author |-> req.Author]

\* a caller invokes the exported ListCommitsInRange with its own
\* parameters: a fetched repository, a window and an author filter
ListCommitsCall ==
    /\ pc = "idle"
    /\ \E h \in Histories(1, DayLen, now) \ {<<>>}, s \in {0, DayLen},
          e \in {DayLen, now}, a \in AuthorFilters :
        /\ entry' = "ListCommitsInRange"
        /\ repo' = [ok |-> TRUE, commits |-> h]
        /\ startDate' = Date(s, "day")
        /\ endDate' = Date(e, "day")
        /\ req' = [ZeroRequest EXCEPT !.Author = a]
        /\ pc' = "collect"
    /\ UNCHANGED <<now, clock, env, args, ctxErr, iter, buf, kept,
                   commitMsgs, sb, result, calls, net, failed>>
    /\ UNCHANGED streamVars
    /\ UNCHANGED <<cancelAt, runs>>
    /\ UNCHANGED parked
    /\ UNCHANGED lit

\* the caller invokes ListCommitsInRange a second time with the same
\* repository handle, window and filter
ListCommitsAgain ==
    /\ pc = "done"
    /\ entry = "ListCommitsInRange"
    /\ Len(runs) = 1
    /\ result' = NoResult
    /\ pc' = "collect"
    /\ UNCHANGED <<now, clock, env, entry, args, req, ctxErr, repo,
                   startDate, endDate, iter, buf, kept, commitMsgs, sb,
                   calls, net, failed>>
    /\ UNCHANGED streamVars
    /\ UNCHANGED <<cancelAt, runs>>
    /\ UNCHANGED parked
    /\ UNCHANGED lit

\* a builder that lives in the analyzer and is never reset
BuilderKept == buf

\* var buf strings.Builder (part_011:560): a new, empty builder per call
NewBuilder == <<>>

\* ListCommitsInRange returns "" and its error; GenerateSummary wraps the
\* error (git_summary.go:177-180)
CollectFail(e) ==
    Fail("ListCommitsInRange",
         IF entry = "ListCommitsInRange" THEN e
         ELSE ErrorfW("failed to list commits", e))

\* the results a direct caller of ListCommitsInRange has received so far
CollectRuns(ent, pcNext, res) ==
    IF ent = "ListCommitsInRange" /\ pcNext = "done"
    THEN Append(runs, [text |-> res.text, err |-> res.err])
    ELSE runs

\* ListCommitsInRange up to the start of ForEach: validation and Repo.Log
ListCommitsStart ==
    /\ pc = "collect"
    /\ calls' = Append(calls, "ListCommitsInRange")
    /\ IF ~ValidCommitRangeParams(RangeParams)
       THEN /\ CollectFail(
                   ErrorfW("invalid commit range parameters", RequiredErr))
            /\ UNCHANGED <<iter, buf, kept>>
       ELSE \E logOk \in BOOLEAN :
            IF ~logOk
            THEN /\ CollectFail(ErrorfW("failed to get commit history",
                                    NewErr("log error")))
                 /\ UNCHANGED <<iter, buf, kept>>
            ELSE /\ iter' = Log(repo.commits, RangeParams.Start,
                                 RangeParams.End)
                 /\ buf' = NewBuilder
                 /\ kept' = <<>>
                 /\ pc' = "walk"
                 /\ UNCHANGED <<result, failed>>
    /\ UNCHANGED <<now, clock, env, entry, args, req, ctxErr, repo,
                   startDate, endDate, commitMsgs, sb, net>>
    /\ UNCHANGED streamVars
    /\ UNCHANGED cancelAt
    /\ runs' = CollectRuns(entry, pc', result')
    /\ UNCHANGED parked
    /\ UNCHANGED lit

\* a callback that ends every message with a line break
WriteMessageLine(b, m) == b \o m \o <<"\n">>

\* buf.WriteString(cmt.Message) (part_011:592)
WriteMessage(b, m) == b \o m

\* one call of the ForEach callback (part_011:572-594)
VisitCommit ==
    /\ pc = "walk"
    /\ iter # <<>>
    /\ LET cmt == Head(iter) IN
       IF ctxErr # "none"
       THEN /\ CollectFail(
                   ErrorfW("error iterating commits", NewErr(ctxErr)))
            /\ UNCHANGED <<iter, buf, kept>>
       ELSE IF IsBot(cmt.author) \/ AuthorMismatch(cmt.author, req.Author)
       THEN /\ iter' = Tail(iter)
            /\ UNCHANGED <<buf, kept, result, failed, pc>>
       ELSE /\ buf' = WriteMessage(buf, cmt.msg)
            /\ kept' = Append(kept, cmt)
            /\ iter' = Tail(iter)
            /\ UNCHANGED <<result, failed, pc>>
    /\ UNCHANGED <<now, clock, env, entry, args, req, ctxErr, repo,
                   startDate, endDate, commitMsgs, sb, calls, net>>
    /\ UNCHANGED streamVars
    /\ UNCHANGED cancelAt
    /\ runs' = CollectRuns(entry, pc', result')
    /\ UNCHANGED parked
    /\ UNCHANGED lit

\* ForEach is exhausted: ListCommitsInRange returns buf.String(), and
\* GenerateSummary tests it for "" (git_summary.go:177-185)
ListCommitsReturn ==
    /\ pc = "walk"
    /\ iter = <<>>
    /\ commitMsgs' = buf
    /\ IF entry = "ListCommitsInRange"
       THEN /\ result' = [status |-> "ok", text |-> buf, err |-> NilErr]
            /\ pc' = "done"
       ELSE IF NoCommits(buf)
       THEN /\ result' = Returned(entry, Sentinel, NilErr)
            /\ pc' = "done"
       ELSE /\ pc' = After("ListCommitsInRange")
            /\ result' = result
    /\ UNCHANGED <<now, clock, env, entry, args, req, ctxErr, repo,
                   startDate, endDate, iter, buf, kept, sb, calls, net,
                   failed>>
    /\ UNCHANGED streamVars
    /\ UNCHANGED cancelAt
    /\ runs' = CollectRuns(entry, pc', result')
    /\ UNCHANGED parked
    /\ UNCHANGED lit

\* ------------------------------------------- SummarizeCommitMessages
Fragments == <<"f1", "f2", "f3", "f4">>
Corpora == {<<>>, <<"a">>, <<"a", "b">>}

\* a caller invokes the exported SummarizeCommitMessages of a client
SummarizeCall ==
    /\ pc = "idle"
    /\ \E c \in Corpora :
        /\ entry' = "SummarizeCommitMessages"
        /\ commitMsgs' = c
        /\ pc' = "summarize"
    /\ UNCHANGED <<now, clock, env, args, req, ctxErr, repo, startDate,
                   endDate, iter, buf, kept, sb, result, calls, net,
                   failed>>
    /\ UNCHANGED streamVars
    /\ UNCHANGED cancelAt
    /\ UNCHANGED runs
    /\ UNCHANGED parked
    /\ UNCHANGED lit

\* a validator that accepts the empty corpus
CorpusGivenAlways(t) == TRUE

\* validate.Var(commitMsgs, "required") (part_011:336)
CorpusGiven(t) == RequiredText(t)

\* a builder that keeps only the latest fragment
WriteStringReplace(b, s) == <<s>>

\* stringBuilder.WriteString(resp.Choices[0].Delta.Content) (part_011:377)
WriteString(b, s) == Append(b, s)

\* a receive error reported without its cause in the chain
RecvErrorFlat(cause) ==
    ErrorfV("OpenAI stream recv error", NewErr(cause))

\* fmt.Errorf("OpenAI stream recv error: %w", err) (part_011:374)
RecvError(cause) == ErrorfW("OpenAI stream recv error", NewErr(cause))

\* SummarizeCommitMessages returns (text, err); GenerateSummary
\* (git_summary.go:188-193) passes a nil-error text on and replaces the
\* text of a failure by "" with the error wrapped
SummarizeReturn(text, err) ==
    /\ summary' = [returned |-> TRUE, text |-> text, err |-> err]
    /\ IF entry = "SummarizeCommitMessages"
       THEN /\ result' = [status |-> IF IsNil(err) THEN "ok" ELSE "err",
                          text |-> text, err |-> err]
            /\ failed' = IF IsNil(err) THEN failed
                         ELSE Append(failed, "SummarizeCommitMessages")
            /\ pc' = "done"
       ELSE IF IsNil(err)
       THEN /\ result' = Returned(entry, text, NilErr)
            /\ failed' = failed
            /\ pc' = "done"
       ELSE Fail("SummarizeCommitMessages",
                ErrorfW("failed to summarize commit messages", err))

\* validation and CreateChatCompletionStream (part_011:336-359)
SummarizeStart ==
    /\ pc = "summarize"
    /\ calls' = Append(calls, "SummarizeCommitMessages")
    /\ IF ~CorpusGiven(commitMsgs)
       THEN /\ SummarizeReturn(<<>>,
                   ErrorfW("commit messages cannot be empty", RequiredErr))
            /\ UNCHANGED <<net, sb>>
       ELSE /\ net' = Append(net, "backend")
            /\ IF ctxErr # "none"
               THEN /\ SummarizeReturn(<<>>,
                           ErrorfW("OpenAI stream error", NewErr(ctxErr)))
                    /\ sb' = sb
               ELSE \E ok \in BOOLEAN :
                    IF ~ok
                    THEN /\ SummarizeReturn(<<>>,
                                ErrorfW("OpenAI stream error",
                                    NewErr("transport error")))
                         /\ sb' = sb
                    ELSE /\ sb' = <<>>
                         /\ pc' = "stream"
                         /\ UNCHANGED <<result, failed, summary>>
    /\ UNCHANGED <<now, clock, env, entry, args, req, ctxErr, repo,
                   startDate, endDate, iter, buf, kept, commitMsgs>>
    /\ UNCHANGED <<delivered, recvs, recvOut, cancelAt>>
    /\ UNCHANGED runs
    /\ UNCHANGED parked
    /\ UNCHANGED lit

\* a loop that never looks at the context
DoneNever(e) == FALSE

\* case <-ctx.Done() of the select is ready (part_011:363-365)
Done(e) == e # "none"

\* top of the loop: select on ctx.Done() with a default (part_011:362-366)
StreamSelect ==
    /\ pc = "stream"
    /\ IF Done(ctxErr)
       THEN SummarizeReturn(sb, NewErr(ctxErr))
       ELSE /\ pc' = "recv"
            /\ UNCHANGED <<result, failed, summary>>
    /\ UNCHANGED <<now, clock, env, entry, args, req, ctxErr, repo,
                   startDate, endDate, iter, buf, kept, commitMsgs, sb,
                   calls, net>>
    /\ UNCHANGED <<delivered, recvs, recvOut, cancelAt>>
    /\ UNCHANGED runs
    /\ UNCHANGED parked
    /\ UNCHANGED lit

\* the blocking stream.Recv() of the default branch returns: a fragment,
\* end of stream, or an error (part_011:367-377); nothing in the loop
\* watches the context while it blocks, so a fragment or the end of the
\* stream may still be returned after a cancellation
StreamRecv ==
    /\ pc = "recv"
    /\ recvs' = recvs + 1
    /\ \E out \in {"fragment", "eof", "error"} :
       /\ recvOut' = out
       /\ IF out = "fragment"
          THEN /\ Len(delivered) < MaxFrags
               /\ delivered' = Append(delivered,
                                      Fragments[Len(delivered) + 1])
               /\ sb' = WriteString(sb, Fragments[Len(delivered) + 1])
               /\ pc' = "stream"
               /\ UNCHANGED <<result, failed, summary>>
          ELSE IF out = "eof"
          THEN /\ SummarizeReturn(sb, NilErr)
               /\ UNCHANGED <<sb, delivered>>
          ELSE /\ SummarizeReturn(sb,
                      RecvError(IF ctxErr # "none" THEN ctxErr
                                ELSE "transport error"))
               /\ UNCHANGED <<sb, delivered>>
    /\ UNCHANGED <<now, clock, env, entry, args, req, ctxErr, repo,
                   startDate, endDate, iter, buf, kept, commitMsgs, calls,
                   net>>
    /\ UNCHANGED cancelAt
    /\ UNCHANGED runs
    /\ UNCHANGED parked
    /\ UNCHANGED lit

\* ------------------------------------------------------ literature tool
\* identifiers are spelled in tokens: a space, a digit, a letter, "/", the
\* DOI directory indicator "10." and the prefixes a DOI may carry
Digits == {"1", "2"}
DoiPrefixes == {"doi:", "DOI:", "https://doi.org/", "doi.org/"}
LitIds ==
    {<<>>, <<" ">>, <<"1", "2">>, <<" ", "1", "2", " ">>, <<"a", "1">>,
     <<"1", " ", "2">>, <<"10.", "1", "/", "x">>,
     <<"DOI:", " ", "10.", "1", "/", "x">>, <<"10.", "1", "/">>,
     <<"x", "10.", "1", "/", "x">>}
IdTypes == {"pmid", "doi", "isbn"}
Providers == {"", "pubmed", "europepmc", "scholar"}

\* request.GetArguments() of the literature handler
LitArgs ==
    [id : Opt(LitIds, <<>>), id_type : Opt(IdTypes, ""),
     provider : Opt(Providers, "")]

RECURSIVE TrimLeft(_)
TrimLeft(s) ==
    IF s # <<>> /\ Head(s) = " " THEN TrimLeft(Tail(s)) ELSE s
RECURSIVE TrimRight(_)
TrimRight(s) ==
    IF s # <<>> /\ s[Len(s)] = " "
    THEN TrimRight(SubSeq(s, 1, Len(s) - 1))
    ELSE s
\* strings.TrimSpace
TrimSpace(s) == TrimRight(TrimLeft(s))

\* normalizePMID (client.go:1282-1295): <<normalized id, error>>
normalizePMID(pmid) ==
    LET pid == TrimSpace(pmid) IN
    IF Len(pid) = 0
    THEN <<<<>>, NewErr("PMID cannot be empty")>>
    ELSE IF \E i \in 1..Len(pid) : pid[i] \notin Digits
    THEN <<<<>>, NewErr("PMID must contain only digits")>>
    ELSE <<pid, NilErr>>

\* doiRegex (client.go:1103-1105): an optional prefix, spaces, the captured
\* 10.\S+/\S+, spaces; the captured group, or <<>> when there is no match
DoiMatch(doi) ==
    LET rest == IF doi # <<>> /\ Head(doi) \in DoiPrefixes
                THEN Tail(doi) ELSE doi
        core == TrimSpace(rest)
    IN  IF /\ Len(core) >= 4
           /\ core[1] = "10."
           /\ \A i \in 1..Len(core) : core[i] # " "
           /\ \E i \in 3..(Len(core) - 1) : core[i] = "/"
        THEN core
        ELSE <<>>

\* normalizeDOI (client.go:1298-1321): the match, then the test that the
\* part after the first "/" is not empty
normalizeDOI(doi) ==
    LET m == DoiMatch(doi) IN
    IF m = <<>>
    THEN <<<<>>, NewErr("invalid DOI format, expected '10.xxxx/yyyy'")>>
    ELSE LET j == CHOOSE i \in 1..Len(m) :
                      m[i] = "/" /\ \A k \in 1..(i - 1) : m[k] # "/"
         IN  IF SubSeq(m, j + 1, Len(m)) = <<>>
             THEN <<<<>>,
                    NewErr("invalid DOI format, expected '10.xxxx/yyyy'")>>
             ELSE <<m, NilErr>>

\* normalizeID (client.go:1270-1279)
normalizeID(id, idType) ==
    CASE idType = "pmid" -> normalizePMID(id)
      [] idType = "doi" -> normalizeDOI(id)
      [] OTHER -> <<<<>>, NewErr("unsupported ID type")>>

\* the request built by the handler: provider defaults to "pubmed"
LiteratureRequest(a) ==
    [ID |-> a.id.v, IDType |-> a.id_type.v,
     Provider |-> IF a.provider.present /\ a.provider.v # ""
                  THEN a.provider.v ELSE "pubmed"]

\* validate.Struct(LiteratureRequest) (client.go:1121-1125)
ValidLiteratureRequest(p) ==
    /\ p.ID # <<>>
    /\ p.IDType \in {"pmid", "doi"}
    /\ p.Provider = "" \/ p.Provider \in {"pubmed", "europepmc"}

\* fmt.Errorf("invalid %s format: %w", params.IDType, err)
InvalidFormat(idType) ==
    CASE idType = "pmid" -> "invalid pmid format"
      [] idType = "doi" -> "invalid doi format"
      [] OTHER -> "invalid id format"

\* a handler that normalizes the identifier before it validates the struct
LitChecksNormalizeFirst(a) ==
    IF ~a.id.present \/ ~a.id_type.present
    THEN NewErr("missing required parameters")
    ELSE IF ~IsNil(normalizeID(a.id.v, a.id_type.v)[2])
    THEN ErrorfW(InvalidFormat(a.id_type.v),
                 normalizeID(a.id.v, a.id_type.v)[2])
    ELSE IF ~ValidLiteratureRequest(LiteratureRequest(a))
    THEN ErrorfW("validation error", NewErr("failed on a validation tag"))
    ELSE NilErr

\* the checks of Handler before it fetches (client.go:1223-1250), in
\* order: the error of the first check that fails, or nil
LitChecks(a) ==
    IF ~a.id.present \/ ~a.id_type.present
    THEN NewErr("missing required parameters")
    ELSE IF ~ValidLiteratureRequest(LiteratureRequest(a))
    THEN ErrorfW("validation error", NewErr("failed on a validation tag"))
    ELSE IF ~IsNil(normalizeID(a.id.v, a.id_type.v)[2])
    THEN ErrorfW(InvalidFormat(a.id_type.v),
                 normalizeID(a.id.v, a.id_type.v)[2])
    ELSE NilErr

\* Handler up to the call of fetchArticle
LitHandlerCall ==
    /\ lit.pc = "idle"
    /\ \E a \in LitArgs :
        lit' = IF ~IsNil(LitChecks(a))
               THEN [lit EXCEPT !.pc = "done", !.args = a,
                        !.result = [status |-> "err", article |-> <<>>,
                                    err |-> LitChecks(a)]]
               ELSE [lit EXCEPT !.pc = "fetch", !.args = a,
                        !.params = [LiteratureRequest(a) EXCEPT
                            !.ID = normalizeID(a.id.v, a.id_type.v)[1]]]
    /\ UNCHANGED gitVars

\* a fallback that also follows the provider argument
FallbackByProvider(p) == p.IDType = "pmid" \/ p.Provider = "pubmed"

\* fetchArticle and GetArticleWithFallback (client.go:1134-1148, 575):
\* PubMed is tried after EuropePMC for a PMID only
FallbackAllowed(p) == p.IDType = "pmid"

\* a fallback that reports the error of the last provider tried
FallbackErrorLast(epmcErr, pubmedErr) == pubmedErr

\* GetArticleWithFallback returns the original EuropePMC error
\* (client.go:583-584)
FallbackError(epmcErr, pubmedErr) == epmcErr

\* the errors GetArticleFromEuropePMC returns (client.go:499-535)
EuropePMCError(out, idType) ==
    CASE out = "notfound" ->
            NewErr(IF idType = "doi" THEN "DOI_NOT_FOUND"
                   ELSE "EUROPEPMC_NOT_FOUND")
      [] out = "apierror" ->
            IF idType = "doi"
            THEN ErrorfW("EuropePMC search error", NewErr("transport error"))
            ELSE NewErr("EUROPEPMC_API_ERROR")
      [] OTHER -> NewErr("invalid EuropePMC article type")

\* the errors GetArticleFromPubMed returns (client.go:471-485)
PubMedError(out) ==
    CASE out = "notfound" -> NewErr("PUBMED_NOT_FOUND")
      [] out = "apierror" -> NewErr("PUBMED_API_ERROR")
      [] OTHER -> NewErr("invalid PubMed article type")

LitOutcomes == {"ok", "notfound", "apierror", "converr"}

\* what Handler returns once fetchArticle has returned (client.go:1253-1264)
LitReturn(article, err) ==
    IF IsNil(err)
    THEN [status |-> "ok", article |-> article, err |-> NilErr]
    ELSE [status |-> "err", article |-> <<>>,
          err |-> ErrorfW("failed to fetch literature", err)]

\* GetArticleFromEuropePMC: one query of EuropePMC, by PMID or by a DOI
\* search, and the conversion of its answer
GetArticleFromEuropePMC ==
    /\ lit.pc = "fetch"
    /\ \E out \in LitOutcomes :
        lit' =
          IF out = "ok"
          THEN [lit EXCEPT !.pc = "done",
                   !.net = Append(lit.net, "europepmc"),
                   !.result = LitReturn(<<"europepmc", lit.params.ID>>,
                                        NilErr)]
          ELSE IF FallbackAllowed(lit.params)
          THEN [lit EXCEPT !.pc = "fallback",
                   !.net = Append(lit.net, "europepmc"),
                   !.epmcErr = EuropePMCError(out, lit.params.IDType)]
          ELSE [lit EXCEPT !.pc = "done",
                   !.net = Append(lit.net, "europepmc"),
                   !.epmcErr = EuropePMCError(out, lit.params.IDType),
                   !.result = LitReturn(<<>>,
                       EuropePMCError(out, lit.params.IDType))]
    /\ UNCHANGED gitVars

\* GetArticleFromPubMed as the fallback of GetArticleWithFallback
GetArticleFromPubMed ==
    /\ lit.pc = "fallback"
    /\ \E out \in LitOutcomes :
        lit' =
          IF out = "ok"
          THEN [lit EXCEPT !.pc = "done",
                   !.net = Append(lit.net, "pubmed"),
                   !.result = LitReturn(<<"pubmed", lit.params.ID>>,
                                        NilErr)]
          ELSE [lit EXCEPT !.pc = "done",
                   !.net = Append(lit.net, "pubmed"),
                   !.pubmedErr = PubMedError(out),
                   !.result = LitReturn(<<>>,
                       FallbackError(lit.epmcErr, PubMedError(out)))]
    /\ UNCHANGED gitVars

\* ------------------------------------------------------- specification
\* one request served by the registered tool handler
Next ==
    \/ Tick
    \/ Cancel
    \/ HandlerCall
    \/ NewOpenAIClient
    \/ CloneStart
    \/ CloneFinish
    \/ ResolveDates
    \/ ListCommitsStart
    \/ VisitCommit
    \/ ListCommitsReturn
    \/ SummarizeStart
    \/ StreamSelect
    \/ StreamRecv

Spec == Init /\ [][Next]_vars

\* one direct call of the exported GenerateSummary
NextDirect ==
    \/ Tick
    \/ Cancel
    \/ GenerateSummaryCall
    \/ CloneStart
    \/ CloneFinish
    \/ ResolveDates
    \/ ListCommitsStart
    \/ VisitCommit
    \/ ListCommitsReturn
    \/ SummarizeStart
    \/ StreamSelect
    \/ StreamRecv

SpecDirect == Init /\ [][NextDirect]_vars

\* a direct call of GenerateSummary on a remote whose commits may carry
\* the empty message
NextEmptyMessages ==
    \/ Tick
    \/ Cancel
    \/ GenerateSummaryCall
    \/ CloneStart
    \/ CloneFinishEmptyMessages
    \/ ResolveDates
    \/ ListCommitsStart
    \/ VisitCommit
    \/ ListCommitsReturn
    \/ SummarizeStart
    \/ StreamSelect
    \/ StreamRecv

SpecEmptyMessages == Init /\ [][NextEmptyMessages]_vars

\* one direct call of the exported SummarizeCommitMessages
NextSummarize ==
    \/ Tick
    \/ Cancel
    \/ SummarizeCall
    \/ SummarizeStart
    \/ StreamSelect
    \/ StreamRecv

SpecSummarize == Init /\ [][NextSummarize]_vars

\* two direct calls of the exported ListCommitsInRange, one after the other
NextCollect ==
    \/ Tick
    \/ Cancel
    \/ ListCommitsCall
    \/ ListCommitsAgain
    \/ ListCommitsStart
    \/ VisitCommit
    \/ ListCommitsReturn

SpecCollect == Init /\ [][NextCollect]_vars

\* two invocations of the handler of one tool, interleaved step by step;
\* both arrive at the instant the tool was constructed
InitConcurrent ==
    /\ Init
    /\ now = DayLen
    /\ env = "sk-env"

NextConcurrent ==
    \/ Switch
    \/ HandlerCallConcurrent
    \/ NewOpenAIClient
    \/ CloneStart
    \/ CloneFinish
    \/ ResolveDates
    \/ ListCommitsStart
    \/ VisitCommit
    \/ ListCommitsReturn
    \/ SummarizeStart
    \/ StreamSelect
    \/ StreamRecv

SpecConcurrent == InitConcurrent /\ [][NextConcurrent]_vars

\* one request served by the literature tool's handler
NextLiterature ==
    \/ LitHandlerCall
    \/ GetArticleFromEuropePMC
    \/ GetArticleFromPubMed

SpecLiterature == Init /\ [][NextLiterature]_vars

\* ------------------------------------------------------------ vocabulary
Range(q) == {q[i] : i \in 1..Len(q)}
NoDup(q) == \A i, j \in 1..Len(q) : q[i] = q[j] => i = j
IsPrefix(q, r) == Len(q) <= Len(r) /\ SubSeq(r, 1, Len(q)) = q
Called(step) == step \in Range(calls)
FailedAt(step) == step \in Range(failed)
\* the step has returned without an error
CloneReturned == repo.ok
DatesReturned ==
    Called("ParseAnalysisDates") /\ ~FailedAt("ParseAnalysisDates")
CollectReturned ==
    /\ Called("ListCommitsInRange")
    /\ ~FailedAt("ListCommitsInRange")
    /\ pc # "walk"
\* the commits of the fetched history inside the resolved window
InWindow == SelectSeq(repo.commits,
                LAMBDA c : InRange(c, startDate.time, endDate.time))
\* the pipeline step an error message names
StepOfError(e) ==
    CASE "Error initializing OpenAI client" \in Range(e.msg)
            -> "NewOpenAIClient"
      [] "failed to clone repository" \in Range(e.msg) -> "CloneAndCheckout"
      [] "failed to parse dates" \in Range(e.msg) -> "ParseAnalysisDates"
      [] "failed to list commits" \in Range(e.msg) -> "ListCommitsInRange"
      [] "failed to summarize commit messages" \in Range(e.msg)
            -> "SummarizeCommitMessages"
      [] OTHER -> "none"
HandlerOrder ==
    <<"NewOpenAIClient", "CloneAndCheckout", "ParseAnalysisDates",
      "ListCommitsInRange", "SummarizeCommitMessages">>

\* --------------------------------------------------------------- claims
\* C1: whenever the collect step has returned an empty corpus, the
\* invocation is over, the caller holds exactly the text "No commits found
\* in the specified date range." with a nil error, and neither
\* SummarizeCommitMessages nor the backend was ever called.
C1_EmptyCorpusSentinel ==
    (CollectReturned /\ commitMsgs = <<>>) =>
        /\ pc = "done"
        /\ result = [status |-> "ok", text |-> Sentinel, err |-> NilErr]
        /\ ~Called("SummarizeCommitMessages")
        /\ "backend" \notin Range(net)

\* an invocation whose window holds commits, all of them filtered out
C1_Witness ==
    /\ CollectReturned
    /\ commitMsgs = <<>>
    /\ InWindow # <<>>
    /\ pc = "done"
    /\ result.text = Sentinel

\* a required input of a Handler request is absent or empty
MissingRequired(a, key) ==
    \/ ~a.repo_url.present \/ a.repo_url.v = ""
    \/ ~a.branch.present \/ a.branch.v = ""
    \/ ~a.start_date.present \/ a.start_date.v = ""
    \/ ~a.author.present \/ a.author.v = <<>>
    \/ key = ""

\* C2: every Handler request with a required input (repo_url, branch,
\* start_date, author, backend credential) absent or empty ends with an
\* error of kind ValidationFailed ("Validation error"), and neither a
\* repository fetch nor a backend call is made.
C2_MissingInputIsValidationFailed ==
    (entry = "Handler" /\ pc = "done" /\ MissingRequired(args, env)) =>
        /\ result.status = "err"
        /\ Head(result.err.msg) = "Validation error"
        /\ net = <<>>

\* C3 as claimed: the steps run in the order Resolve dates, Acquire
\* repository, Collect corpus, Summarize, and a pipeline that ends with
\* the date error has attempted no repository fetch.
C3_DatesBeforeFetch ==
    /\ IsPrefix(calls, <<"NewOpenAIClient", "ParseAnalysisDates",
                         "CloneAndCheckout", "ListCommitsInRange",
                         "SummarizeCommitMessages">>)
    /\ FailedAt("ParseAnalysisDates") => "fetch" \notin Range(net)

\* C3 as amended: the steps run in the order Validate, Acquire repository,
\* Resolve dates, Collect corpus, Summarize; a step starts only after every
\* earlier step has succeeded; a pipeline that ends with the date error
\* has made exactly one repository fetch, which succeeded, and has started
\* neither the commit walk nor the summarizer.
C3_StepOrderAsCoded ==
    /\ IsPrefix(calls, HandlerOrder)
    /\ calls # <<>> => ValidRequest(req)
    /\ \A i \in 1..(Len(calls) - 1) : ~FailedAt(calls[i])
    /\ Called("ParseAnalysisDates") => CloneReturned
    /\ Called("ListCommitsInRange") => DatesReturned
    /\ Called("SummarizeCommitMessages") =>
            (CollectReturned /\ commitMsgs # <<>>)
    /\ FailedAt("ParseAnalysisDates") =>
            /\ net = <<"fetch">>
            /\ CloneReturned
            /\ ~Called("ListCommitsInRange")
            /\ pc = "done"
            /\ result.status = "err"
            /\ StepOfError(result.err) = "ParseAnalysisDates"

\* an unresolvable date reported after the repository was fetched
C3_Witness ==
    /\ FailedAt("ParseAnalysisDates")
    /\ net = <<"fetch">>
    /\ repo.commits # <<>>
    /\ pc = "done"

\* C4: every pipeline step (client construction, repository fetch, date
\* resolution, commit walk, summarization) is executed at most once; once
\* a step has returned an error the invocation is over with that step as
\* the last one executed, and the caller holds exactly one error, which
\* names that step.
C4_AtMostOnceFirstErrorOnly ==
    /\ NoDup(calls)
    /\ NoDup(net)
    /\ Len(failed) <= 1
    /\ failed # <<>> =>
            /\ pc = "done"
            /\ calls[Len(calls)] = failed[1]
            /\ result.status = "err"
            /\ ~IsNil(result.err)
            /\ StepOfError(result.err) = failed[1]
    /\ (result.status = "err" /\ calls # <<>>) => Len(failed) = 1

\* the summarizer fails after a fragment arrived: the fifth step is the
\* first and only one to fail
C4_Witness ==
    /\ failed = <<"SummarizeCommitMessages">>
    /\ calls = HandlerOrder
    /\ Len(sb) >= 1
    /\ pc = "done"

\* the author display name carries one of the two automation markers
HasBotMarker(c) ==
    \/ Contains(c.author, Dependabot)
    \/ Contains(c.author, Kodiak)

\* C5: no commit whose author display name contains "dependabot[bot]" or
\* "kodiakhq[bot]" ever has its message written to the corpus, whatever
\* the window and the author filter (a filter matching the bot's name
\* included).
C5_BotsNeverContribute ==
    /\ \A i \in 1..Len(kept) : ~HasBotMarker(kept[i])
    /\ \A i \in 1..Len(repo.commits) :
          HasBotMarker(repo.commits[i]) =>
              /\ ~Contains(buf, repo.commits[i].msg)
              /\ ~Contains(commitMsgs, repo.commits[i].msg)

\* the collect step has returned after passing over commits of both bot
\* accounts in the window, under an author filter that matches their names
C5_Witness ==
    /\ CollectReturned
    /\ req.Author = <<"B","O","T">>
    /\ \E i \in 1..Len(InWindow) : InWindow[i].author = Kodiak
    /\ \E i \in 1..Len(InWindow) : InWindow[i].author = Dependabot

\* C6: with a non-empty author filter, once the collect step has returned
\* a corpus, a non-bot commit of the window has its message in the corpus
\* if and only if its lower-cased author name contains the lower-cased
\* filter; filter "jane" retains a commit by "Jane Doe".
C6_AuthorFilterIff ==
    (CollectReturned /\ req.Author # <<>>) =>
        \A i \in 1..Len(InWindow) :
            LET c == InWindow[i] IN
            ~HasBotMarker(c) =>
                /\ Contains(commitMsgs, c.msg) <=>
                       Contains(ToLower(c.author), ToLower(req.Author))
                /\ (req.Author = <<"j","a","n","e">> /\ c.author = JaneDoe)
                       => Contains(commitMsgs, c.msg)

\* filter "jane" has retained a commit authored by "Jane Doe"
C6_Witness ==
    /\ CollectReturned
    /\ req.Author = <<"j","a","n","e">>
    /\ \E i \in 1..Len(InWindow) :
          /\ InWindow[i].author = JaneDoe
          /\ Contains(commitMsgs, InWindow[i].msg)

\* C7: with the empty author filter the collect step succeeds and the
\* corpus holds the message of every non-bot commit of the window and of
\* no bot commit.
C7_EmptyFilterKeepsAllNonBots ==
    (req.Author = <<>> /\ pc = "done" /\ Called("ListCommitsInRange")) =>
        /\ CollectReturned
        /\ \A i \in 1..Len(InWindow) :
              Contains(commitMsgs, InWindow[i].msg) <=>
                  ~HasBotMarker(InWindow[i])

\* C8 as claimed: with an empty end string the resolved end is the
\* configured clock floored to the start of its day, for every clock value.
C8_EndIsFlooredClock ==
    (DatesReturned /\ req.EndDate = "") => endDate.time = FloorDay(clock)

\* C8 as amended: with an empty end string the resolved end is the
\* configured clock value itself, unchanged, given with day period; it is
\* the floored clock exactly when the clock lies on a day boundary.
C8_EndIsClockUnfloored ==
    (DatesReturned /\ req.EndDate = "") =>
        /\ endDate = Date(clock, "day")
        /\ endDate.time = FloorDay(clock) <=> clock % DayLen = 0

\* a default end resolved under a clock that is not on a day boundary
C8_Witness ==
    /\ DatesReturned
    /\ req.EndDate = ""
    /\ clock % DayLen # 0

\* C9: with an empty end date the default end is taken when the invocation
\* resolves its dates: every fetched commit committed after the tool was
\* constructed, not before the start and no later than the start of the
\* day of the invocation is inside the window.
C9_DefaultEndAtInvocation ==
    (DatesReturned /\ req.EndDate = "") =>
        \A i \in 1..Len(repo.commits) :
            LET c == repo.commits[i] IN
            (c.when > clock /\ c.when <= FloorDay(now)
                /\ c.when >= startDate.time)
            => InRange(c, startDate.time, endDate.time)

\* the date parser fails on the string or yields the zero instant
Unresolvable(str) ==
    LET r == Parse([CurrentTime |-> clock], str) IN
    ~IsNil(r[2]) \/ IsZero(r[1].time)

\* C10: when the start string, or a non-empty end string, cannot be parsed
\* or parses to the zero instant, ParseAnalysisDates returns a non-nil
\* error; a nil error never comes with a zero start or end instant.
C10_UnparsableDatesFail ==
    Called("ParseAnalysisDates") =>
        /\ (Unresolvable(req.StartDate)
                \/ (req.EndDate # "" /\ Unresolvable(req.EndDate)))
            => /\ FailedAt("ParseAnalysisDates")
               /\ result.status = "err"
               /\ ~IsNil(result.err)
        /\ DatesReturned =>
               (~IsZero(startDate.time) /\ ~IsZero(endDate.time))

\* a valid start with an end string that parses to the zero instant
C10_Witness ==
    /\ FailedAt("ParseAnalysisDates")
    /\ ~Unresolvable(req.StartDate)
    /\ req.EndDate = "0001-01-01"

\* the context was cancelled while the chat stream was open
CancelledInStream == cancelAt.pc \in {"stream", "recv"}

\* C11: when the context is cancelled after exactly N fragments have
\* arrived, N >= 0, and SummarizeCommitMessages returns an error, the text
\* it returns is the concatenation of exactly those N fragments in arrival
\* order and the error is the context's cancellation error. (A stream that
\* ends normally before the cancellation is noticed is left aside.)
C11_CancelReturnsExactlyN ==
    (summary.returned /\ CancelledInStream /\ ~IsNil(summary.err)) =>
        /\ summary.text = SubSeq(delivered, 1, cancelAt.n)
        /\ ctxErr \in summary.err.is

\* C12: when SummarizeCommitMessages returns a nil error, the stream has
\* delivered fragments f1..fk followed by end-of-stream and the returned
\* text is f1 f2 .. fk, every fragment once, in arrival order.
C12_StreamConcatInOrder ==
    (summary.returned /\ IsNil(summary.err)) =>
        /\ recvOut = "eof"
        /\ delivered = SubSeq(Fragments, 1, Len(delivered))
        /\ summary.text = delivered
        /\ entry = "SummarizeCommitMessages" =>
               result = [status |-> "ok", text |-> delivered,
                         err |-> NilErr]

\* two fragments then end-of-stream, with no cancellation
C12_Witness ==
    /\ summary.returned
    /\ IsNil(summary.err)
    /\ ctxErr = "none"
    /\ Len(delivered) = 2
    /\ summary.text = <<"f1", "f2">>

\* C13: when a receive fails with an error other than end-of-stream after
\* N fragments were appended, SummarizeCommitMessages has returned the
\* concatenation of those N fragments together with a non-nil error
\* "OpenAI stream recv error" that wraps the receive error, and the failed
\* receive is the last one made: N fragment receives plus the failed one.
C13_RecvErrorKeepsPartialText ==
    recvOut = "error" =>
        /\ summary.returned
        /\ summary.text = delivered
        /\ ~IsNil(summary.err)
        /\ Head(summary.err.msg) = "OpenAI stream recv error"
        /\ summary.err.is =
              {IF ctxErr # "none" THEN ctxErr ELSE "transport error"}
        /\ recvs = Len(delivered) + 1
        /\ pc = "done"

\* a transport error on the receive that follows the first fragment
C13_Witness ==
    /\ recvOut = "error"
    /\ ctxErr = "none"
    /\ delivered = <<"f1">>
    /\ summary.text = <<"f1">>

\* C14: SummarizeCommitMessages called with the empty corpus returns the
\* empty text and a non-nil error, and no backend request is issued.
C14_EmptyCorpusNoBackend ==
    (Called("SummarizeCommitMessages") /\ commitMsgs = <<>>) =>
        /\ summary.returned
        /\ summary.text = <<>>
        /\ ~IsNil(summary.err)
        /\ "backend" \notin Range(net)
        /\ recvs = 0
        /\ pc = "done"

\* a direct call with the empty corpus has returned
C14_Witness ==
    /\ entry = "SummarizeCommitMessages"
    /\ Called("SummarizeCommitMessages")
    /\ commitMsgs = <<>>
    /\ result.status = "err"

\* C15: CloneAndCheckout called with an empty repository URL or an empty
\* branch name has returned a nil repository and a non-nil error, and no
\* network request was made before it returned (nor after).
C15_EmptyCloneInputsNoNetwork ==
    (Called("CloneAndCheckout") /\ (req.RepoURL = "" \/ req.Branch = "")) =>
        /\ FailedAt("CloneAndCheckout")
        /\ repo = NoRepo
        /\ result.status = "err"
        /\ ~IsNil(result.err)
        /\ net = <<>>
        /\ pc = "done"

\* a URL with an empty branch was refused
C15_Witness ==
    /\ FailedAt("CloneAndCheckout")
    /\ req.RepoURL # ""
    /\ req.Branch = ""
    /\ net = <<>>

\* the context was cancelled, or its deadline passed, during the fetch
CancelledMidFetch == cancelAt.pc = "cloning" /\ pc = "done"

\* C16: a fetch aborted by the context ends the invocation with an error
\* the caller can tell to be a cancellation and not an ordinary fetch
\* failure: the context's error is the preserved cause that errors.Is
\* finds in the returned error; no commit walk was made and neither the
\* summarizer nor the backend was called.
C16_FetchCancelDistinguishable ==
    CancelledMidFetch =>
        /\ FailedAt("CloneAndCheckout")
        /\ result.status = "err"
        /\ result.err.is = {ctxErr}
        /\ ~Called("ListCommitsInRange")
        /\ ~Called("SummarizeCommitMessages")
        /\ net = <<"fetch">>

\* the context was cancelled while ForEach was iterating, and
\* ListCommitsInRange has returned since
CancelledInWalk == cancelAt.pc = "walk" /\ pc # "walk"

\* C17: a context cancelled while ListCommitsInRange iterates makes the
\* call return the empty string with a non-nil cancellation error, never a
\* nil error with the messages gathered; the pipeline then returns an
\* error: it neither returns the no-commits sentinel nor calls the
\* summarizer.
C17_CancelledWalkFails ==
    CancelledInWalk =>
        /\ FailedAt("ListCommitsInRange")
        /\ commitMsgs = <<>>
        /\ pc = "done"
        /\ result.status = "err"
        /\ ctxErr \in result.err.is
        /\ result.text # Sentinel
        /\ ~Called("SummarizeCommitMessages")

\* C18: two calls of ListCommitsInRange with the same repository handle,
\* window and author filter, neither cancelled nor failed, return the same
\* corpus byte for byte, and the second call finds the repository handle
\* as the first call found it.
C18_RepeatableCorpus ==
    (Len(runs) = 2 /\ ctxErr = "none"
        /\ IsNil(runs[1].err) /\ IsNil(runs[2].err)) =>
        /\ runs[1].text = runs[2].text
        /\ runs[2].text = commitMsgs
        /\ result = [status |-> "ok", text |-> runs[1].text,
                     err |-> NilErr]

\* both calls returned a corpus of two messages
C18_Witness ==
    /\ Len(runs) = 2
    /\ ctxErr = "none"
    /\ IsNil(runs[1].err)
    /\ IsNil(runs[2].err)
    /\ Len(runs[1].text) = 2

\* C19: a Handler invocation that is over has returned either a text
\* result with a nil error, or a nil result with exactly one non-nil
\* error; text the summarizer had accumulated before it failed or was
\* cancelled is not in what the caller receives.
C19_ResultXorError ==
    (entry = "Handler" /\ pc = "done") =>
        /\ \/ result.status = "ok" /\ IsNil(result.err)
           \/ /\ result.status = "err"
              /\ ~IsNil(result.err)
              /\ result.text = <<>>
        /\ (summary.returned /\ ~IsNil(summary.err)) =>
               (result.status = "err" /\ result.text = <<>>)

\* the credential a request supplies: its non-empty api_key argument
SuppliedKey(a) == IF a.api_key.present THEN a.api_key.v ELSE ""

\* C20: the backend credential of an invocation is the api_key argument
\* when the request supplies a non-empty one, and the value of
\* OPENAI_API_KEY otherwise.
C20_CredentialFromArgument ==
    (entry = "Handler" /\ result.status # "panic") =>
        req.APIKey = IF SuppliedKey(args) # "" THEN SuppliedKey(args)
                     ELSE env

\* ------------------------------------------- vocabulary of C21..C30
\* a history as the walk yields it: newest commit first
NewestFirst(q) == [i \in 1..Len(q) |-> q[Len(q) + 1 - i]]

\* the commit is inside [s, e], is not a bot's and matches filter a
Survives(c, s, e, a) ==
    /\ s <= c.when
    /\ c.when <= e
    /\ ~HasBotMarker(c)
    /\ Contains(ToLower(c.author), ToLower(a))

\* the messages of a sequence of commits, joined with nothing in between
RECURSIVE JoinMessages(_)
JoinMessages(q) ==
    IF q = <<>> THEN <<>> ELSE Head(q).msg \o JoinMessages(Tail(q))

\* the corpus of a history for a window and an author filter
ExpectedCorpus(commits, s, e, a) ==
    JoinMessages(SelectSeq(NewestFirst(commits),
                           LAMBDA c : Survives(c, s, e, a)))

\* the locals l of an invocation are what its own request, its own fetched
\* history and its own stream make them
RunsAlone(l) ==
    /\ l.entry = "Handler" => l.req = BuildRequest(l.args, env)
    /\ ("ParseAnalysisDates" \in Range(l.calls)
            /\ "ParseAnalysisDates" \notin Range(l.failed)) =>
          <<l.startDate, l.endDate, NilErr>> =
              ParseAnalysisDates([CurrentTime |-> clock],
                                 l.req.StartDate, l.req.EndDate)
    /\ l.pc = "walk" =>
          /\ l.buf = JoinMessages(l.kept)
          /\ Range(l.kept) \subseteq Range(l.repo.commits)
    /\ ("ListCommitsInRange" \in Range(l.calls)
            /\ "ListCommitsInRange" \notin Range(l.failed)
            /\ l.pc # "walk") =>
          l.commitMsgs = ExpectedCorpus(l.repo.commits, l.startDate.time,
                                        l.endDate.time, l.req.Author)
    /\ l.sb = l.delivered
    /\ (l.pc = "done" /\ l.result.status = "ok") =>
          IF l.commitMsgs = <<>>
          THEN l.result.text = Sentinel /\ ~l.summary.returned
          ELSE l.result.text = l.delivered /\ l.summary.returned
    /\ (l.pc = "done" /\ l.result.status # "ok") =>
          (l.result.status = "err" /\ Len(l.failed) = 1)

\* C21: in every interleaving of two invocations of the handler of one
\* tool, each invocation's window, corpus, fragment text and outcome are
\* those of its own request, history and stream, as if it ran alone, and
\* the analyzer's configured clock is the one set at construction.
C21_InvocationsIndependent ==
    /\ RunsAlone(Locals)
    /\ RunsAlone(parked)
    /\ clock = now

\* one invocation is receiving fragments while the other, with another
\* author filter, is in the middle of its commit walk
C21_Witness ==
    /\ pc = "recv"
    /\ delivered = <<"f1">>
    /\ parked.pc = "walk"
    /\ parked.buf # <<>>
    /\ parked.req.Author # req.Author

\* the literature handler's error is "failed to fetch literature"
\* wrapping e
LitFetchFailedWith(e) ==
    /\ lit.result.status = "err"
    /\ lit.result.article = <<>>
    /\ lit.result.err.msg = <<"failed to fetch literature">> \o e.msg
    /\ lit.result.err.is = e.is

\* C22: in a PMID lookup EuropePMC is queried first; PubMed is queried
\* only after EuropePMC has failed and at most once; when PubMed succeeds
\* its article is returned; when both fail the caller's error is the
\* EuropePMC error, not the PubMed error.
C22_PmidFallbackOrder ==
    lit.params.IDType = "pmid" =>
        /\ IsPrefix(lit.net, <<"europepmc", "pubmed">>)
        /\ "pubmed" \in Range(lit.net) => ~IsNil(lit.epmcErr)
        /\ (lit.pc = "done" /\ IsNil(lit.epmcErr)) =>
              /\ lit.net = <<"europepmc">>
              /\ lit.result.status = "ok"
              /\ lit.result.article = <<"europepmc", lit.params.ID>>
        /\ (lit.pc = "done" /\ ~IsNil(lit.epmcErr)) =>
              /\ lit.net = <<"europepmc", "pubmed">>
              /\ IF IsNil(lit.pubmedErr)
                 THEN /\ lit.result.status = "ok"
                      /\ lit.result.article = <<"pubmed", lit.params.ID>>
                 ELSE /\ LitFetchFailedWith(lit.epmcErr)
                      /\ ~LitFetchFailedWith(lit.pubmedErr)

\* both providers failed on a PMID
C22_Witness ==
    /\ lit.params.IDType = "pmid"
    /\ lit.pc = "done"
    /\ lit.net = <<"europepmc", "pubmed">>
    /\ lit.epmcErr = NewErr("EUROPEPMC_API_ERROR")
    /\ lit.pubmedErr = NewErr("PUBMED_NOT_FOUND")

\* C23: in a DOI lookup only EuropePMC is queried, once, whatever the
\* provider argument; PubMed is never queried and a EuropePMC failure is
\* what the caller receives.
C23_DoiEuropePMCOnly ==
    lit.params.IDType = "doi" =>
        /\ IsPrefix(lit.net, <<"europepmc">>)
        /\ lit.pc # "fallback"
        /\ IsNil(lit.pubmedErr)
        /\ lit.pc = "done" =>
              /\ lit.net = <<"europepmc">>
              /\ IF IsNil(lit.epmcErr)
                 THEN /\ lit.result.status = "ok"
                      /\ lit.result.article = <<"europepmc", lit.params.ID>>
                 ELSE LitFetchFailedWith(lit.epmcErr)

\* a DOI lookup with provider "pubmed" has failed at EuropePMC
C23_Witness ==
    /\ lit.params.IDType = "doi"
    /\ lit.args.provider = [present |-> TRUE, v |-> "pubmed"]
    /\ lit.pc = "done"
    /\ lit.net = <<"europepmc">>
    /\ lit.result.status = "err"

\* the handler returned a nil result and an error that starts with m,
\* having queried no provider
LitRefused(m) ==
    /\ lit.pc = "done"
    /\ lit.result.status = "err"
    /\ lit.result.article = <<>>
    /\ Head(lit.result.err.msg) = m
    /\ lit.net = <<>>

\* id or id_type is not in the arguments
LitMissing(a) == ~a.id.present \/ ~a.id_type.present
\* a struct tag fails: empty id, id_type not pmid/doi, unknown provider
LitInvalid(a) ==
    \/ a.id.v = <<>>
    \/ a.id_type.v \notin {"pmid", "doi"}
    \/ a.provider.present /\ a.provider.v \notin {"", "pubmed", "europepmc"}
\* the identifier does not have the format of its type
LitBadFormat(a) == ~IsNil(normalizeID(a.id.v, a.id_type.v)[2])

\* C24: the literature handler checks presence of id and id_type, then
\* the struct tags, then the identifier format, and the first check that
\* fails ends the request with a nil result and an error naming that
\* check, with no provider queried; a request is refused only so.
C24_CheckOrder ==
    lit.pc # "idle" =>
        /\ LitMissing(lit.args) => LitRefused("missing required parameters")
        /\ (~LitMissing(lit.args) /\ LitInvalid(lit.args)) =>
              LitRefused("validation error")
        /\ (~LitMissing(lit.args) /\ ~LitInvalid(lit.args)
                /\ LitBadFormat(lit.args)) =>
              LitRefused(IF lit.args.id_type.v = "pmid"
                         THEN "invalid pmid format"
                         ELSE "invalid doi format")
        /\ (~LitMissing(lit.args) /\ ~LitInvalid(lit.args)
                /\ ~LitBadFormat(lit.args)) =>
              (lit.pc = "done" => lit.net # <<>>)

\* an unknown provider with a malformed PMID is reported as a validation
\* error, the earlier of the two checks
C24_Witness ==
    /\ lit.args.id_type.v = "pmid"
    /\ lit.args.id = [present |-> TRUE, v |-> <<"a", "1">>]
    /\ lit.args.provider.v = "scholar"
    /\ LitRefused("validation error")

\* the context was cancelled while the loop was blocked in stream.Recv()
CancelledInRecv == cancelAt.pc = "recv"

\* C25: when the context is cancelled while SummarizeCommitMessages waits
\* for the next fragment, it returns without any further receive
\* completing (no fragment, end-of-stream or transport error is needed),
\* with the text of the fragments that had arrived at the cancellation
\* and the context's cancellation error. Every receive before the
\* cancellation delivered a fragment, so no further receive means that
\* the receives completed are as many as those fragments.
C25_CancelInRecvReturnsAtOnce ==
    (summary.returned /\ CancelledInRecv) =>
        /\ recvs = cancelAt.n
        /\ summary.text = SubSeq(delivered, 1, cancelAt.n)
        /\ summary.err = NewErr(ctxErr)

\* C30: SummarizeCommitMessages tests the context before each receive.
\* Once the context is cancelled at most one further receive completes,
\* the one in progress at the cancellation; the returned text holds the
\* fragments that had arrived and at most one later fragment; a loop
\* iteration that begins with the context cancelled performs no receive
\* and returns the text so far with the context's error.
C30_AtMostOneReceiveAfterCancel ==
    ctxErr # "none" =>
        /\ recvs <= cancelAt.n + 1
        /\ Len(delivered) <= cancelAt.n + 1
        /\ cancelAt.pc # "recv" => recvs = cancelAt.n
        /\ (summary.returned /\ CancelledInStream) =>
              /\ Len(summary.text) <= cancelAt.n + 1
              /\ IsPrefix(SubSeq(delivered, 1, cancelAt.n), summary.text)
              /\ IsPrefix(summary.text, delivered)
        /\ (summary.returned /\ CancelledInStream
                /\ (cancelAt.pc = "stream" \/ recvOut = "fragment")) =>
              /\ summary.text = delivered
              /\ summary.err = NewErr(ctxErr)

\* cancelled during the second receive, which still delivers "f2"; the
\* next iteration returns both fragments with the context's error
C30_Witness ==
    /\ cancelAt = [pc |-> "recv", n |-> 1]
    /\ summary.returned
    /\ recvs = 2
    /\ summary.text = <<"f1", "f2">>
    /\ summary.err = NewErr(ctxErr)

\* C26: the corpus ListCommitsInRange returns is the concatenation, with
\* nothing inserted, of the messages of the surviving commits in the
\* order the walk yields them (newest first), each once; while the walk
\* runs, the builder holds the messages of the survivors visited so far.
C26_CorpusIsConcatenation ==
    /\ pc = "walk" =>
          buf = JoinMessages(
                    SelectSeq(NewestFirst(repo.commits),
                              LAMBDA c :
                                  /\ c \notin Range(iter)
                                  /\ Survives(c, startDate.time,
                                              endDate.time, req.Author)))
    /\ CollectReturned =>
          commitMsgs = ExpectedCorpus(repo.commits, startDate.time,
                                      endDate.time, req.Author)

\* two commits by Jane Doe survive: the corpus is the newer message
\* followed by the older one
C26_Witness ==
    /\ CollectReturned
    /\ Len(repo.commits) = 2
    /\ commitMsgs = <<"b", "a">>

\* C27: a commit is considered by the collect step if and only if its
\* committer timestamp t has window.start <= t <= window.end: the walk is
\* handed exactly those commits, and once a corpus is returned a commit
\* that passes the bot and author tests has its message in it exactly
\* when it is inside the bounds, both bounds included.
C27_WindowInclusive ==
    /\ pc = "walk" =>
          \A i \in 1..Len(repo.commits) :
              LET c == repo.commits[i] IN
              (c \in Range(iter) \/ c \in Range(kept)) =>
                  (startDate.time <= c.when /\ c.when <= endDate.time)
    /\ CollectReturned =>
          \A i \in 1..Len(repo.commits) :
              LET c == repo.commits[i] IN
              (~HasBotMarker(c)
                    /\ Contains(ToLower(c.author), ToLower(req.Author))) =>
                  (Contains(commitMsgs, c.msg) <=>
                      (startDate.time <= c.when /\ c.when <= endDate.time))

\* one commit stamped exactly at the start and one exactly at the end of
\* a window that spans more than an instant, both in the corpus
C27_Witness ==
    /\ CollectReturned
    /\ startDate.time < endDate.time
    /\ Len(repo.commits) = 2
    /\ repo.commits[1].when = startDate.time
    /\ repo.commits[2].when = endDate.time
    /\ commitMsgs = <<"b", "a">>

\* C28: a start after the end is no validation error. Date resolution
\* succeeds, the collect step is refused only for another parameter (the
\* empty author filter), the walk is handed no commit, and when the
\* collect step returns the corpus is empty and the pipeline has ended
\* with the sentinel and a nil error without calling the summarizer.
C28_StartAfterEndEmptyRange ==
    /\ (Called("ParseAnalysisDates")
            /\ req.StartDate = "day2" /\ req.EndDate = "day1") =>
          (DatesReturned /\ startDate.time > endDate.time)
    /\ (DatesReturned /\ startDate.time > endDate.time) =>
          /\ pc = "walk" => (iter = <<>> /\ buf = <<>>)
          /\ (FailedAt("ListCommitsInRange")
                  /\ "invalid commit range parameters"
                          \in Range(result.err.msg)) =>
                req.Author = <<>>
          /\ CollectReturned =>
                /\ commitMsgs = <<>>
                /\ pc = "done"
                /\ result = [status |-> "ok", text |-> Sentinel,
                             err |-> NilErr]
                /\ ~Called("SummarizeCommitMessages")
                /\ "backend" \notin Range(net)

\* start "day2", end "day1" on a history with a commit by Jane Doe: the
\* pipeline has ended with the sentinel
C28_Witness ==
    /\ req.StartDate = "day2"
    /\ req.EndDate = "day1"
    /\ CollectReturned
    /\ \E i \in 1..Len(repo.commits) : repo.commits[i].author = JaneDoe
    /\ result = [status |-> "ok", text |-> Sentinel, err |-> NilErr]

\* C29: the pipeline returns the no-commits sentinel exactly when the
\* corpus string is empty, whatever the number of surviving commits: once
\* the collect step has returned the empty corpus the pipeline has ended
\* with the sentinel and a nil error and the summarizer is never called,
\* also when commits survived with empty messages; after a non-empty
\* corpus the summarizer is called and the sentinel is not the result.
C29_SentinelOnEmptyString ==
    CollectReturned =>
        /\ commitMsgs = JoinMessages(kept)
        /\ commitMsgs = <<>> =>
              /\ pc = "done"
              /\ result = [status |-> "ok", text |-> Sentinel,
                           err |-> NilErr]
              /\ ~Called("SummarizeCommitMessages")
              /\ "backend" \notin Range(net)
        /\ commitMsgs # <<>> =>
              /\ result.text # Sentinel
              /\ pc = "done" => Called("SummarizeCommitMessages")

\* two commits by Jane Doe survive, both with the empty message
C29_Witness ==
    /\ CollectReturned
    /\ Len(kept) = 2
    /\ commitMsgs = <<>>
    /\ result = [status |-> "ok", text |-> Sentinel, err |-> NilErr]

====
